---- MODULE Spec2Model ----
(*
  License server (src/app.py): a Flask application over one SQLAlchemy table,
  Licencia.  Three mutating routes are modelled:
    POST /admin/generar_claves/<n>   generar_claves
    POST /kofi-webhook               handle_kofi_payment
    POST /api/activar                activar_licencia

  Each request is served by its own handler with its own ORM session.  The
  code takes no row lock (no with_for_update), so a handler works on the
  snapshot of the row it loaded and its commit issues an UPDATE of only the
  columns it changed.  Handlers of different requests interleave between a
  query and the commit that follows it.

  The store itself is taken to be available (a commit does not fail for
  reasons outside the program).  uuid4() returns a value that is in use
  nowhere: license codes are numbered in the order they are drawn, and a
  session token is a number that is neither in the table nor held by a
  handler.

  pc, req and loc are each handler's position, request and local variables;
  last is the request completed by the step just taken, with its locals and
  its response (NoLast after a step that completes none).
*)
EXTENDS Integers, Sequences, FiniteSets, TLC

VARIABLES licencias, now, uuidCount, pc, req, loc, last

vars == <<licencias, now, uuidCount, pc, req, loc, last>>

\* ---------------------------------------------------------------- bounds
MaxRecords == 2
MaxTimedRecords == 1
MaxYears == 2
TicksPerDay == 2

\* ------------------------------------------------------ program constants
DiasLicencia == 365
MaxCantidad == 100

Procs == {1, 2}

\* None for the integer-valued columns, NoneStr for the string-valued ones.
None == -1
NoneStr == "None"

\* timedelta(days=365), in clock ticks
Year == DiasLicencia * TicksPerDay

\* datetime.date(): the calendar day of an instant
Date(t) == t \div TicksPerDay

\* The instants at which the clock is sampled: every tick of the first day
\* of each year and the first tick of the day after it.
Instants == { y * Year + k : y \in 0..MaxYears, k \in 0..TicksPerDay }

\* Expirations are followed up to one year past the last sampled instant.
MaxExp == (MaxYears + 1) * Year + TicksPerDay

Cols == {"codigo_licencia", "hwid_activacion", "fecha_activacion",
         "token_sesion", "fecha_expiracion", "buyer_email"}

\* (a column default other than None)
Licencia_ConExpiracion(codigo, email) ==
    [codigo_licencia  |-> codigo,
     hwid_activacion  |-> NoneStr,
     fecha_activacion |-> None,
     token_sesion     |-> None,
     fecha_expiracion |-> 0,
     buyer_email      |-> email]

\* A new row of the table: every optional column takes its default (None).
Licencia(codigo, email) ==
    [codigo_licencia  |-> codigo,
     hwid_activacion  |-> NoneStr,
     fecha_activacion |-> None,
     token_sesion     |-> None,
     fecha_expiracion |-> None,
     buyer_email      |-> email]

NoRow == Licencia(None, NoneStr)

NoReq ==
    [op |-> "none", data |-> FALSE, tipo |-> "", email |-> NoneStr,
     codigo |-> None, hwid |-> NoneStr, cantidad |-> 0]

NoLoc ==
    [id |-> 0, snap |-> NoRow, new |-> NoRow, ahora |-> None,
     caso |-> "none", clave |-> None, is_renovating |-> FALSE,
     was_active_and_extended |-> FALSE, prev |-> 0, prev_snap |-> NoRow,
     enviado |-> FALSE]

NoResp == [status |-> 0, mensaje |-> "", token |-> None, expiracion |-> None]

NoLast == [req |-> NoReq, loc |-> NoLoc, resp |-> NoResp]

Response(status, mensaje, token, expiracion) ==
    [status |-> status, mensaje |-> mensaje, token |-> token,
     expiracion |-> expiracion]

\* Inserts that in-flight handlers still have to commit.
PendingInserts ==
    Cardinality({q \in Procs : pc[q] = "kofi_commit" /\ loc[q].caso = "nuevo"})

\* A request is taken by the first free handler of the pool.
Free(p) == pc[p] = "idle" /\ \A q \in Procs : q < p => pc[q] # "idle"

\* No handler is between its query and its commit.
Quiet == \A q \in Procs : pc[q] = "idle"

\* uuid4().hex[:32]: a token in use nowhere
TokensInUse ==
    {licencias[i].token_sesion : i \in DOMAIN licencias}
        \cup {loc[q].new.token_sesion : q \in Procs}

\* Tokens are named after the row they are issued for: row i takes the least
\* of its TokensPerRow names that is in use nowhere.
TokensPerRow == Cardinality(Procs) + 1

NuevoToken(i) ==
    CHOOSE t \in ((i - 1) * TokensPerRow + 1)..(i * TokensPerRow) : t \notin TokensInUse

Init ==
    /\ licencias = << >>
    /\ now = 0
    /\ uuidCount = 0
    /\ pc = [p \in Procs |-> "idle"]
    /\ req = [p \in Procs |-> NoReq]
    /\ loc = [p \in Procs |-> NoLoc]
    /\ last = NoLast

\* The wall clock (datetime.now) only moves forward.
Clock ==
    /\ \E t \in Instants : t > now /\ now' = t
    /\ last' = NoLast
    /\ UNCHANGED <<licencias, uuidCount, pc, req, loc>>

\* The same clock, looked at once a year.
YearInstants == { y * Year : y \in 0..MaxYears }

ClockYears ==
    /\ \E t \in YearInstants : t > now /\ now' = t
    /\ last' = NoLast
    /\ UNCHANGED <<licencias, uuidCount, pc, req, loc>>

\* The handler returns the response: it is free for the next request.
Finish(p, r, l, response) ==
    /\ pc' = [pc EXCEPT ![p] = "idle"]
    /\ req' = [req EXCEPT ![p] = NoReq]
    /\ loc' = [loc EXCEPT ![p] = NoLoc]
    /\ last' = [req |-> r, loc |-> l, resp |-> response]

\* session.commit() of a session holding one loaded row: UPDATE ... WHERE id
\* of the columns whose value differs from the loaded one.
Flush(tabla, id, snap, new) ==
    [tabla EXCEPT ![id] =
        [c \in Cols |-> IF new[c] # snap[c] THEN new[c] ELSE @[c]]]

\* (a generator that repeats itself)
Uuid4_Repetido(k) == 1

\* str(uuid4()): the k-th value drawn in a step, uuidCount values having been
\* drawn before it
Uuid4(k) == uuidCount + k

\* ------------------------------------------------------- generar_claves
\* (one row too few)
GenerarCodigos_UnaMenos(cantidad) ==
    [k \in 1..(cantidad - 1) |-> Licencia(Uuid4(k), NoneStr)]

\* cantidad new rows, each with its own uuid4 code and nothing else set
GenerarCodigos(cantidad) ==
    [k \in 1..cantidad |-> Licencia(Uuid4(k), NoneStr)]

\* cap: the number of rows the store may hold
GenerarClaves(p, cantidad, cap) ==
    /\ Free(p)
    /\ LET r == [NoReq EXCEPT !.op = "generar", !.cantidad = cantidad] IN
       IF cantidad <= 0 \/ cantidad > MaxCantidad
       THEN /\ Finish(p, r, NoLoc, Response(400, "Cantidad invalida", None, None))
            /\ UNCHANGED <<licencias, now, uuidCount>>
       ELSE /\ Len(licencias) + PendingInserts + cantidad <= cap
            /\ licencias' = licencias \o GenerarCodigos(cantidad)
            /\ uuidCount' = uuidCount + cantidad
            /\ Finish(p, r, NoLoc, Response(200, "generadas", None, None))
            /\ UNCHANGED <<now>>

\* --------------------------------------------------- handle_kofi_payment
\* (the filter left out)
IdsByEmail_SinFiltro(email) == DOMAIN licencias

\* filter_by(buyer_email=email): the ids of the buyer's rows.
IdsByEmail(email) ==
    {i \in DOMAIN licencias : licencias[i].buyer_email = email}

\* order_by(fecha_expiracion.desc()).first() over the buyer's rows.  The
\* database the code is configured for (postgresql+psycopg2) sorts NULL
\* before every value in a descending order; equal keys come in any order.
DescBefore(a, b) == a = None \/ (b # None /\ a >= b)

LicenciaARenovar(email) ==
    {i \in IdsByEmail(email) :
        \A j \in IdsByEmail(email) :
            DescBefore(licencias[i].fecha_expiracion, licencias[j].fecha_expiracion)}

\* (<= for <)
AunActiva_Inclusive(lic, ahora) ==
    lic.fecha_expiracion # None /\ ahora <= lic.fecha_expiracion

\* "still active": fecha_expiracion is set and later than the current time
AunActiva(lic, ahora) ==
    lic.fecha_expiracion # None /\ ahora < lic.fecha_expiracion

\* (an extension that also unbinds the row)
Extender_Desvincula(lic) ==
    [lic EXCEPT !.fecha_expiracion = lic.fecha_expiracion + Year,
                !.token_sesion = None,
                !.hwid_activacion = NoneStr]

\* (365 days from now, not from the expiration)
Extender_DesdeAhora(lic) ==
    [lic EXCEPT !.fecha_expiracion = now + Year,
                !.token_sesion = None]

\* CASO 1 of the renewal: add 365 days to the expiration the row has
Extender(lic) ==
    [lic EXCEPT !.fecha_expiracion = lic.fecha_expiracion + Year,
                !.token_sesion = None]

\* CASO 2 of the renewal: back to a row that can be activated again
Resetear(lic) ==
    [lic EXCEPT !.hwid_activacion = NoneStr,
                !.fecha_activacion = None,
                !.token_sesion = None,
                !.fecha_expiracion = None]

\* The request arrives: the payload is decoded and validated and, for a
\* Shop Order with an email, the first query (licencia_previa) runs.
KofiRequest(p, data, tipo, email, cap) ==
    /\ Free(p)
    /\ LET r == [NoReq EXCEPT !.op = "kofi", !.data = data, !.tipo = tipo,
                              !.email = email] IN
       IF ~data
       THEN /\ Finish(p, r, NoLoc, Response(400, "Error", None, None))
            /\ UNCHANGED <<licencias, now, uuidCount>>
       ELSE IF tipo # "Shop Order"
       THEN /\ Finish(p, r, NoLoc, Response(200, "OK (Ignorado)", None, None))
            /\ UNCHANGED <<licencias, now, uuidCount>>
       ELSE IF email = NoneStr
       THEN /\ Finish(p, r, NoLoc, Response(400, "Error: No email", None, None))
            /\ UNCHANGED <<licencias, now, uuidCount>>
       ELSE IF IdsByEmail(email) # {}
       THEN \* is_renovating: the row found stays loaded in the session
            /\ \E i \in IdsByEmail(email) :
                 loc' = [loc EXCEPT ![p] =
                           [NoLoc EXCEPT !.is_renovating = TRUE,
                                         !.prev = i,
                                         !.prev_snap = licencias[i]]]
            /\ pc' = [pc EXCEPT ![p] = "kofi_q2"]
            /\ req' = [req EXCEPT ![p] = r]
            /\ last' = NoLast
            /\ UNCHANGED <<licencias, now, uuidCount>>
       ELSE \* new buyer: a new row with a new code is added to the session
            /\ Len(licencias) + PendingInserts < cap
            /\ uuidCount' = uuidCount + 1
            /\ loc' = [loc EXCEPT ![p] =
                         [NoLoc EXCEPT !.caso = "nuevo",
                                       !.clave = Uuid4(1),
                                       !.new = Licencia(Uuid4(1), email)]]
            /\ pc' = [pc EXCEPT ![p] = "kofi_commit"]
            /\ req' = [req EXCEPT ![p] = r]
            /\ last' = NoLast
            /\ UNCHANGED <<licencias, now>>

\* The second query (licencia_a_renovar) and the decision between extending
\* and resetting.  A row the session already holds keeps the values it was
\* loaded with.
KofiQuery2(p) ==
    /\ pc[p] = "kofi_q2"
    /\ \E i \in LicenciaARenovar(req[p].email) :
         LET snap == IF i = loc[p].prev THEN loc[p].prev_snap ELSE licencias[i]
             activa == AunActiva(snap, now)
         IN  /\ activa => snap.fecha_expiracion + Year <= MaxExp
             /\ loc' = [loc EXCEPT ![p] =
                          [@ EXCEPT !.id = i,
                                    !.snap = snap,
                                    !.ahora = now,
                                    !.clave = snap.codigo_licencia,
                                    !.caso = IF activa THEN "extender" ELSE "resetear",
                                    !.was_active_and_extended = activa,
                                    !.new = IF activa THEN Extender(snap)
                                                      ELSE Resetear(snap)]]
    /\ pc' = [pc EXCEPT ![p] = "kofi_commit"]
    /\ last' = NoLast
    /\ UNCHANGED <<licencias, now, uuidCount, req>>

\* (the commit undone when the mail is not accepted)
KofiCommit_Rollback(p, accepted) ==
    /\ pc[p] = "kofi_commit"
    /\ licencias' = IF ~accepted THEN licencias
                    ELSE IF loc[p].caso = "nuevo"
                    THEN Append(licencias, loc[p].new)
                    ELSE Flush(licencias, loc[p].id, loc[p].snap, loc[p].new)
    /\ Finish(p, req[p], [loc[p] EXCEPT !.enviado = accepted],
              IF accepted THEN Response(200, "OK", None, None)
                          ELSE Response(500, "Error interno de email", None, None))
    /\ UNCHANGED <<now, uuidCount>>

\* db.session.commit() followed by send_key_to_buyer: the sink accepts the
\* mail (status 202) or not (another status, or an exception); enviado is
\* what send_key_to_buyer returns.
KofiCommit(p, accepted) ==
    /\ pc[p] = "kofi_commit"
    /\ licencias' = IF loc[p].caso = "nuevo"
                    THEN Append(licencias, loc[p].new)
                    ELSE Flush(licencias, loc[p].id, loc[p].snap, loc[p].new)
    /\ Finish(p, req[p], [loc[p] EXCEPT !.enviado = accepted],
              IF accepted THEN Response(200, "OK", None, None)
                          ELSE Response(500, "Error interno de email", None, None))
    /\ UNCHANGED <<now, uuidCount>>

\* ------------------------------------------------------ activar_licencia
\* filter_by(codigo_licencia=codigo).first()
IdsByCodigo(codigo) ==
    {i \in DOMAIN licencias : licencias[i].codigo_licencia = codigo}

\* CASO 1: the row is bound to the client's hardware; the expiration is
\* written unless the row already carries one that is not in the past.
SobrescribeExpiracion(lic, ahora) ==
    lic.fecha_expiracion = None \/ lic.fecha_expiracion < ahora

Activar(lic, hwid, ahora, token) ==
    [lic EXCEPT !.hwid_activacion = hwid,
                !.fecha_activacion = ahora,
                !.token_sesion = token,
                !.fecha_expiracion = IF SobrescribeExpiracion(lic, ahora)
                                     THEN ahora + Year ELSE @]

\* CASO 1 applies to a row bound to no hardware
Virgen(lic) == lic.hwid_activacion = NoneStr

\* (the check left out)
OtroDispositivo_Omitido(lic, hwid) == FALSE

\* CASO 2: the row is bound to other hardware than the client's
OtroDispositivo(lic, hwid) == lic.hwid_activacion # hwid

\* (the check left out)
Expirada_Nunca(lic, ahora) == FALSE

\* (instants compared, not dates)
Expirada_PorInstante(lic, ahora) == ahora > lic.fecha_expiracion

\* CASO 3: expired when today's date is after the expiration's date
Expirada(lic, ahora) == Date(ahora) > Date(lic.fecha_expiracion)

\* (a revalidation that also renews the year)
Revalidar_Renueva(lic, token) ==
    [lic EXCEPT !.token_sesion = token, !.fecha_expiracion = now + Year]

\* CASO 4: only the session token is replaced
Revalidar(lic, token) == [lic EXCEPT !.token_sesion = token]

ActivarRequest(p, codigo, hwid) ==
    /\ Free(p)
    /\ LET r == [NoReq EXCEPT !.op = "activar", !.codigo = codigo, !.hwid = hwid] IN
       IF codigo = None \/ hwid = NoneStr
       THEN /\ Finish(p, r, NoLoc, Response(400, "Faltan datos", None, None))
            /\ UNCHANGED <<licencias, now, uuidCount>>
       ELSE IF IdsByCodigo(codigo) = {}
       THEN /\ Finish(p, r, NoLoc, Response(404, "Licencia invalida", None, None))
            /\ UNCHANGED <<licencias, now, uuidCount>>
       ELSE \E i \in IdsByCodigo(codigo) :
            LET lic == licencias[i]
                seen == [NoLoc EXCEPT !.id = i, !.snap = lic, !.ahora = now]
            IN
            IF Virgen(lic)
            THEN /\ loc' = [loc EXCEPT ![p] =
                              [seen EXCEPT !.caso = "virgen",
                                           !.new = Activar(lic, hwid, now, NuevoToken(i))]]
                 /\ pc' = [pc EXCEPT ![p] = "act_commit"]
                 /\ req' = [req EXCEPT ![p] = r]
                 /\ last' = NoLast
                 /\ UNCHANGED <<licencias, now, uuidCount>>
            ELSE IF OtroDispositivo(lic, hwid)
            THEN /\ Finish(p, r, [seen EXCEPT !.caso = "bloqueo"], Response(403, "otro dispositivo", None, None))
                 /\ UNCHANGED <<licencias, now, uuidCount>>
            ELSE IF lic.fecha_expiracion = None
            THEN \* None has no .date(): the handler raises
                 /\ Finish(p, r, [seen EXCEPT !.caso = "error"], Response(500, "AttributeError", None, None))
                 /\ UNCHANGED <<licencias, now, uuidCount>>
            ELSE IF Expirada(lic, now)
            THEN /\ Finish(p, r, [seen EXCEPT !.caso = "expirada"], Response(403, "expiro", None, None))
                 /\ UNCHANGED <<licencias, now, uuidCount>>
            ELSE /\ loc' = [loc EXCEPT ![p] =
                              [seen EXCEPT !.caso = "revalida",
                                           !.new = Revalidar(lic, NuevoToken(i))]]
                 /\ pc' = [pc EXCEPT ![p] = "act_commit"]
                 /\ req' = [req EXCEPT ![p] = r]
                 /\ last' = NoLast
                 /\ UNCHANGED <<licencias, now, uuidCount>>

\* db.session.commit() and the response.  The commit expires the loaded row,
\* so the expiration the response reports is read back from the store.
ActivarCommit(p) ==
    /\ pc[p] = "act_commit"
    /\ licencias' = Flush(licencias, loc[p].id, loc[p].snap, loc[p].new)
    /\ LET exp == licencias'[loc[p].id].fecha_expiracion IN
       Finish(p, req[p], loc[p],
              IF exp = None
              THEN Response(500, "AttributeError", None, None)
              ELSE IF loc[p].caso = "virgen"
              THEN Response(201, "Licencia activada", loc[p].new.token_sesion, exp)
              ELSE Response(200, "Licencia revalidada", loc[p].new.token_sesion, exp))
    /\ UNCHANGED <<now, uuidCount>>

\* ------------------------------------------------------------- requests
\* Buyers and devices are named in the order in which they first appear.
BuyerOrder == <<"b1", "b2">>
HwidOrder == <<"h1", "h2">>

KnownBuyers ==
    {licencias[i].buyer_email : i \in DOMAIN licencias} \cup {req[q].email : q \in Procs}

KnownHwids ==
    {licencias[i].hwid_activacion : i \in DOMAIN licencias}
        \cup {req[q].hwid : q \in Procs}

\* The names seen so far and the first name not yet seen
UpToFirstNew(order, known) ==
    {order[k] : k \in {k \in DOMAIN order : \A j \in 1..(k - 1) : order[j] \in known}}

Buyers == UpToFirstNew(BuyerOrder, KnownBuyers)
Hwids == UpToFirstNew(HwidOrder, KnownHwids)

\* Every kind of request, well-formed or not
Cantidades == {0, 1, 2, MaxCantidad, MaxCantidad + 1}
Tipos == {"Shop Order", "Donation"}
Codigos == {None} \cup (1..(MaxRecords + 1))

Generar(cap) ==
    \E p \in Procs : \E n \in Cantidades : GenerarClaves(p, n, cap)

Kofi(cap) ==
    \E p \in Procs :
        \/ \E tipo \in Tipos : \E email \in Buyers \cup {NoneStr} :
               KofiRequest(p, TRUE, tipo, email, cap)
        \/ KofiRequest(p, FALSE, "", NoneStr, cap)

Activacion ==
    \E p \in Procs : \E codigo \in Codigos : \E hwid \in Hwids \cup {NoneStr} :
        ActivarRequest(p, codigo, hwid)

\* The well-formed requests: a provisioning of one row, a Shop Order with an
\* email, an activation with a code and a device
GenerarUna(cap) == \E p \in Procs : GenerarClaves(p, 1, cap)

ShopOrder(cap) ==
    \E p \in Procs : \E email \in Buyers : KofiRequest(p, TRUE, "Shop Order", email, cap)

ActivacionCompleta(cap) ==
    \E p \in Procs : \E codigo \in 1..cap : \E hwid \in Hwids :
        ActivarRequest(p, codigo, hwid)

\* Activations that all come from one device
ActivacionUnDispositivo(cap) ==
    \E p \in Procs : \E codigo \in 1..cap : ActivarRequest(p, codigo, HwidOrder[1])

\* Concurrent handlers over a store of several rows, every activation coming
\* from the same device and the clock standing still.
Next ==
    \/ GenerarUna(MaxRecords)
    \/ ShopOrder(MaxRecords)
    \/ ActivacionUnDispositivo(MaxRecords)
    \/ \E p \in Procs : KofiQuery2(p)
    \/ \E p \in Procs : \E accepted \in BOOLEAN : KofiCommit(p, accepted)
    \/ \E p \in Procs : ActivarCommit(p)

Spec == Init /\ [][Next]_vars

\* Concurrent handlers and the yearly clock over a store of MaxTimedRecords
\* rows.
TimedNext ==
    \/ ClockYears
    \/ GenerarUna(MaxTimedRecords)
    \/ ShopOrder(MaxTimedRecords)
    \/ ActivacionCompleta(MaxTimedRecords)
    \/ \E p \in Procs : KofiQuery2(p)
    \/ \E p \in Procs : \E accepted \in BOOLEAN : KofiCommit(p, accepted)
    \/ \E p \in Procs : ActivarCommit(p)

TimedSpec == Init /\ [][TimedNext]_vars

\* One request at a time, of every kind: a request is received, and the clock
\* read, only when no handler is at work.
SeqNext ==
    \/ Quiet /\ Clock
    \/ Quiet /\ Generar(MaxTimedRecords)
    \/ Quiet /\ Kofi(MaxTimedRecords)
    \/ Quiet /\ Activacion
    \/ \E p \in Procs : KofiQuery2(p)
    \/ \E p \in Procs : \E accepted \in BOOLEAN : KofiCommit(p, accepted)
    \/ \E p \in Procs : ActivarCommit(p)

SeqSpec == Init /\ [][SeqNext]_vars

\* Provisioning requests of every size: the small batches while the store
\* holds fewer than MaxRecords rows, and a batch of the largest size on top
\* of those.
GenerarLotes ==
    \E p \in Procs : \E n \in Cantidades :
        GenerarClaves(p, n, IF n = MaxCantidad THEN MaxRecords + MaxCantidad
                                               ELSE MaxRecords)

\* One request at a time, of every kind, the clock standing still.
ProvNext ==
    \/ Quiet /\ GenerarLotes
    \/ Quiet /\ Kofi(MaxRecords)
    \/ Quiet /\ Activacion
    \/ \E p \in Procs : KofiQuery2(p)
    \/ \E p \in Procs : \E accepted \in BOOLEAN : KofiCommit(p, accepted)
    \/ \E p \in Procs : ActivarCommit(p)

ProvSpec == Init /\ [][ProvNext]_vars

\* ======================================================================
\* Properties
\* ======================================================================
\* Steps, as the properties below speak of them.

\* An activation request (codigo, hwid) is received in this step: either the
\* handler goes on to its commit, or it answers at once.
ActivarArrives(codigo, hwid) ==
    \/ \E p \in Procs :
          /\ pc[p] = "idle" /\ pc'[p] = "act_commit"
          /\ req'[p].codigo = codigo /\ req'[p].hwid = hwid
    \/ /\ pc' = pc
       /\ last'.req.op = "activar"
       /\ last'.req.codigo = codigo /\ last'.req.hwid = hwid

\* Handler p commits and answers in this step.
ActivarCommits(p) == pc[p] = "act_commit" /\ pc'[p] = "idle"
KofiCommits(p) == pc[p] = "kofi_commit" /\ pc'[p] = "idle"

HwidNames == {HwidOrder[k] : k \in DOMAIN HwidOrder}
BuyerNames == {BuyerOrder[k] : k \in DOMAIN BuyerOrder}

Success(status) == status \in {200, 201}

\* ----------------------------------------------------------------------
\* C1  Binding immutability.  When an activation request arrives for a row
\* that is bound to a device H and the request carries another device, the
\* request is answered at once with the 403 "bound to another device"
\* failure and no field of any row changes; this is so whether the license
\* is expired or not.
C1_BindingImmutability ==
    [][\A i \in DOMAIN licencias : \A h \in HwidNames :
          ( /\ licencias[i].hwid_activacion \notin {NoneStr, h}
            /\ ActivarArrives(licencias[i].codigo_licencia, h) )
          => ( /\ pc' = pc
               /\ ~Success(last'.resp.status)
               /\ last'.resp.status = 403
               /\ last'.resp.mensaje = "otro dispositivo"
               /\ licencias' = licencias )]_vars

\* A request from another device was refused on a license that had expired.
C1_Witness ==
    /\ last.req.op = "activar"
    /\ last.resp.status = 403
    /\ last.loc.snap.hwid_activacion \notin {NoneStr, last.req.hwid}
    /\ last.loc.snap.fecha_expiracion # None
    /\ Date(last.loc.ahora) > Date(last.loc.snap.fecha_expiracion)
    /\ licencias[last.loc.id] = last.loc.snap

\* ----------------------------------------------------------------------
\* C2  Concurrent activations of the same VIRGIN code from different devices
\* do not interleave: a request that read the row unbound and comes to its
\* commit after another request has bound the row to a different device is
\* rejected, and the row stays bound to the device of the request that
\* succeeded.
C2_NoInterleavedActivation ==
    [][\A p \in Procs :
          ( /\ ActivarCommits(p)
            /\ loc[p].caso = "virgen"
            /\ licencias[loc[p].id].hwid_activacion \notin {NoneStr, req[p].hwid} )
          => ( /\ ~Success(last'.resp.status)
               /\ licencias'[loc[p].id].hwid_activacion
                    = licencias[loc[p].id].hwid_activacion )]_vars

\* ----------------------------------------------------------------------
\* C3  No two buyers receive the same license code.  Every code handed to
\* the notification sink for a buyer is the code of exactly one row, and that
\* row's buyer_email is that buyer; and a row never changes its code or, once
\* it has one, its buyer.  So a code delivered to one buyer can at no time be
\* delivered to, or owned by, another.
DeliveredToOwner ==
    (last.req.op = "kofi" /\ last.loc.clave # None)
    => /\ \E i \in DOMAIN licencias :
             /\ licencias[i].codigo_licencia = last.loc.clave
             /\ licencias[i].buyer_email = last.req.email
       /\ Cardinality({i \in DOMAIN licencias :
                          licencias[i].codigo_licencia = last.loc.clave}) = 1

OwnerStable ==
    \A i \in DOMAIN licencias :
        /\ i \in DOMAIN licencias'
        /\ licencias'[i].codigo_licencia = licencias[i].codigo_licencia
        /\ licencias[i].buyer_email # NoneStr
             => licencias'[i].buyer_email = licencias[i].buyer_email

C3_NoSharedCode == []DeliveredToOwner /\ [][OwnerStable]_vars

\* A second buyer is sent a code while another buyer owns a row, the first
\* buyer's purchase being still in flight.
C3_Witness ==
    /\ last.req.op = "kofi"
    /\ last.resp.status = 200
    /\ \E i \in DOMAIN licencias :
          /\ licencias[i].buyer_email \notin {NoneStr, last.req.email}
          /\ licencias[i].codigo_licencia # last.loc.clave
    /\ \E q \in Procs : pc[q] = "kofi_commit" /\ req[q].email # last.req.email

\* ----------------------------------------------------------------------
\* The rows no buyer owns (buyer_email unset)
Available == {i \in DOMAIN licencias : licencias[i].buyer_email = NoneStr}

Codes == {licencias[i].codigo_licencia : i \in DOMAIN licencias}

\* C4  A purchase by a buyer with no prior row, made while the store holds a
\* row that no buyer owns, assigns one of those rows to the buyer: the row's
\* buyer_email becomes the buyer, its code is the code delivered, and the
\* number of rows does not grow.
C4_AssignsAvailable ==
    [][\A p \in Procs :
          ( /\ KofiCommits(p)
            /\ ~loc[p].is_renovating
            /\ Available # {} )
          => ( /\ Len(licencias') = Len(licencias)
               /\ \E i \in Available :
                    /\ licencias'[i].buyer_email = req[p].email
                    /\ last'.loc.clave = licencias[i].codigo_licencia )]_vars

\* ----------------------------------------------------------------------
\* C5  A purchase by a buyer with no prior row, made while the store holds no
\* row without a buyer, creates exactly one row: its code differs from every
\* code in the store, its buyer_email is the buyer, every other optional
\* column is unset, and its code is the one delivered.
C5_MintsOne ==
    [][\A p \in Procs :
          ( /\ KofiCommits(p)
            /\ ~loc[p].is_renovating
            /\ Available = {} )
          => ( /\ Len(licencias') = Len(licencias) + 1
               /\ \A i \in DOMAIN licencias : licencias'[i] = licencias[i]
               /\ LET n == licencias'[Len(licencias')] IN
                    /\ n.codigo_licencia \notin Codes
                    /\ n.codigo_licencia # None
                    /\ n.buyer_email = req[p].email
                    /\ n.hwid_activacion = NoneStr
                    /\ n.fecha_activacion = None
                    /\ n.token_sesion = None
                    /\ n.fecha_expiracion = None
                    /\ last'.loc.clave = n.codigo_licencia
                    /\ last'.req.email = req[p].email )]_vars

\* A second buyer's row was minted beside the row another buyer owns.
C5_Witness ==
    /\ last.req.op = "kofi"
    /\ last.loc.caso = "nuevo"
    /\ Len(licencias) >= 2
    /\ Available = {}
    /\ licencias[Len(licencias)].codigo_licencia = last.loc.clave
    /\ licencias[Len(licencias)].buyer_email = last.req.email

\* ----------------------------------------------------------------------
\* C6  Stacking additivity.  When a repeat buyer purchases at time now and the
\* row selected has an expiration T with now < T, the purchase sets the
\* expiration to exactly T + 365 days, clears the session token, changes no
\* other column, delivers the row's code and marks the outcome as a renewal
\* that extended an active license.
C6_StackingAdditivity ==
    [][\A p \in Procs :
          LET lic == licencias[loc[p].id] IN
          ( /\ KofiCommits(p)
            /\ loc[p].is_renovating
            /\ lic.fecha_expiracion # None
            /\ now < lic.fecha_expiracion )
          => ( /\ licencias'[loc[p].id] =
                    [lic EXCEPT !.fecha_expiracion = lic.fecha_expiracion + DiasLicencia * TicksPerDay,
                                !.token_sesion = None]
               /\ licencias'[loc[p].id].fecha_expiracion # now + DiasLicencia * TicksPerDay
               /\ last'.loc.clave = lic.codigo_licencia
               /\ last'.loc.is_renovating
               /\ last'.loc.was_active_and_extended )]_vars

\* A bound license with a session token was extended some time after its
\* activation.
C6_Witness ==
    /\ last.req.op = "kofi"
    /\ last.loc.was_active_and_extended
    /\ last.loc.snap.token_sesion # None
    /\ last.loc.snap.fecha_activacion < last.loc.ahora
    /\ licencias[last.loc.id].fecha_expiracion
         = last.loc.snap.fecha_expiracion + DiasLicencia * TicksPerDay
    /\ licencias[last.loc.id].token_sesion = None

\* ----------------------------------------------------------------------
\* C7  Reset on expired renewal.  When a repeat buyer purchases and the row
\* selected has no expiration or one that is not later than the current time,
\* the purchase clears the row's device, activation time, session token and
\* expiration, keeps its code and buyer, delivers that code and marks the
\* outcome as a renewal that was not an extension.
C7_ResetOnExpired ==
    [][\A p \in Procs :
          LET lic == licencias[loc[p].id] IN
          ( /\ KofiCommits(p)
            /\ loc[p].is_renovating
            /\ (lic.fecha_expiracion = None \/ lic.fecha_expiracion <= now) )
          => ( /\ licencias'[loc[p].id] =
                    [codigo_licencia  |-> lic.codigo_licencia,
                     hwid_activacion  |-> NoneStr,
                     fecha_activacion |-> None,
                     token_sesion     |-> None,
                     fecha_expiracion |-> None,
                     buyer_email      |-> lic.buyer_email]
               /\ lic.buyer_email = req[p].email
               /\ last'.loc.clave = lic.codigo_licencia
               /\ last'.loc.is_renovating
               /\ ~last'.loc.was_active_and_extended )]_vars

\* A bound license was reset at the very instant of its expiration.
C7_Witness ==
    /\ last.req.op = "kofi"
    /\ last.loc.caso = "resetear"
    /\ last.loc.snap.hwid_activacion # NoneStr
    /\ last.loc.snap.fecha_expiracion = last.loc.ahora
    /\ licencias[last.loc.id].hwid_activacion = NoneStr
    /\ licencias[last.loc.id].fecha_expiracion = None

\* ----------------------------------------------------------------------
\* C8  Expiration boundary.  An activation request with the matching device
\* on a bound license whose expiration falls on calendar day D is answered
\* with the 200 "revalidated" success when the request's date is D or
\* earlier, also at an instant of day D later than the expiration, and with
\* the 403 "expired" failure when its date is D + 1 or later.
C8_ExpirationBoundary ==
    ( /\ last.req.op = "activar"
      /\ last.loc.id # 0
      /\ last.loc.snap.hwid_activacion = last.req.hwid )
    => LET D == last.loc.snap.fecha_expiracion \div TicksPerDay
           today == last.loc.ahora \div TicksPerDay
       IN /\ today <= D => ( /\ last.resp.status = 200
                             /\ last.resp.mensaje = "Licencia revalidada" )
          /\ today >= D + 1 => ( /\ last.resp.status = 403
                                 /\ last.resp.mensaje = "expiro" )

\* A revalidation succeeded on the expiration day, after the expiration.
C8_Witness ==
    /\ last.req.op = "activar"
    /\ last.resp.status = 200
    /\ last.loc.snap.hwid_activacion = last.req.hwid
    /\ last.loc.ahora > last.loc.snap.fecha_expiracion
    /\ last.loc.ahora \div TicksPerDay = last.loc.snap.fecha_expiracion \div TicksPerDay

\* ----------------------------------------------------------------------
\* C9  First activation.  An activation request on a VIRGIN row is answered
\* with the 201 "activated" success and binds the row to the request's
\* device, sets the activation time to now, stores a new session token, and
\* sets the expiration to now + 365 days unless the row's expiration was set
\* to a future instant, in which case the expiration is left as it was.
C9_FirstActivation ==
    [][\A p \in Procs :
          LET lic == licencias[loc[p].id]
              seen == loc[p].snap
          IN
          ( /\ ActivarCommits(p)
            /\ seen.hwid_activacion = NoneStr )
          => ( /\ last'.resp.status = 201
               /\ licencias'[loc[p].id].hwid_activacion = req[p].hwid
               /\ licencias'[loc[p].id].fecha_activacion = loc[p].ahora
               /\ licencias'[loc[p].id].token_sesion # None
               /\ licencias'[loc[p].id].token_sesion # seen.token_sesion
               /\ licencias'[loc[p].id].token_sesion = last'.resp.token
               /\ IF seen.fecha_expiracion # None /\ seen.fecha_expiracion > loc[p].ahora
                  THEN licencias'[loc[p].id].fecha_expiracion = lic.fecha_expiracion
                  ELSE licencias'[loc[p].id].fecha_expiracion
                         = loc[p].ahora + DiasLicencia * TicksPerDay )]_vars

\* ----------------------------------------------------------------------
\* C10  Revalidation changes only the session token.  The commit of an
\* activation request with the matching device on a BOUND_VALID row answers
\* with the 200 "revalidated" success, stores a session token that differs
\* from the one the row had, reports it, and leaves every other column of the
\* row and every other row as they were; so no number of revalidations moves
\* the expiration.
C10_RevalidationFrame ==
    [][\A p \in Procs :
          LET lic == licencias[loc[p].id] IN
          ( /\ ActivarCommits(p)
            /\ lic.hwid_activacion = req[p].hwid
            /\ lic.fecha_expiracion # None
            /\ Date(now) <= Date(lic.fecha_expiracion) )
          => ( /\ last'.resp.status = 200
               /\ last'.resp.mensaje = "Licencia revalidada"
               /\ last'.resp.token # None
               /\ last'.resp.token # lic.token_sesion
               /\ last'.resp.expiracion = lic.fecha_expiracion
               /\ licencias' = [licencias EXCEPT
                                  ![loc[p].id].token_sesion = last'.resp.token] )]_vars

\* A license that already carried a session token was revalidated.
C10_Witness ==
    /\ last.req.op = "activar"
    /\ last.resp.status = 200
    /\ last.loc.snap.token_sesion # None
    /\ licencias[last.loc.id].token_sesion = last.resp.token
    /\ licencias[last.loc.id].token_sesion # last.loc.snap.token_sesion
    /\ licencias[last.loc.id].fecha_expiracion = last.loc.snap.fecha_expiracion

\* ----------------------------------------------------------------------
\* A bound row whose session token is unset: the row was extended by a
\* purchase and no activation request has been granted on it since (a granted
\* activation always stores a token, a reset unbinds the row).
ExtendedSinceActivation(lic) ==
    lic.hwid_activacion # NoneStr /\ lic.token_sesion = None

\* The extension of a bound row keeps the row's device and activation time
\* and moves only the expiration (by 365 days) and the session token.
ExtensionKeepsBinding ==
    \A p \in Procs :
        LET lic == licencias[loc[p].id] IN
        ( /\ KofiCommits(p)
          /\ loc[p].caso = "extender"
          /\ lic.hwid_activacion # NoneStr )
        => ( /\ licencias'[loc[p].id].hwid_activacion = lic.hwid_activacion
             /\ licencias'[loc[p].id].fecha_activacion = lic.fecha_activacion
             /\ licencias'[loc[p].id].fecha_expiracion = loc[p].snap.fecha_expiracion + Year
             /\ ExtendedSinceActivation(licencias'[loc[p].id]) )

\* The commit of the first activation request granted after an extension
\* answers 200 "revalidated", reports the extended expiration and leaves
\* device, activation time and expiration as they were.
RevalidatesAfterExtension ==
    \A p \in Procs :
        LET lic == licencias[loc[p].id] IN
        ( /\ ActivarCommits(p)
          /\ ExtendedSinceActivation(lic)
          /\ lic.hwid_activacion = req[p].hwid )
        => ( /\ last'.resp.status = 200
             /\ last'.resp.mensaje = "Licencia revalidada"
             /\ last'.resp.expiracion = lic.fecha_expiracion
             /\ lic.fecha_expiracion >= lic.fecha_activacion + 2 * Year
             /\ licencias'[loc[p].id].hwid_activacion = lic.hwid_activacion
             /\ licencias'[loc[p].id].fecha_activacion = lic.fecha_activacion
             /\ licencias'[loc[p].id].fecha_expiracion = lic.fecha_expiracion )

\* The next activation request with the row's device is granted: it goes on
\* to its commit as a revalidation.
GrantedAfterExtension(i) ==
    \E p \in Procs :
        /\ pc[p] = "idle" /\ pc'[p] = "act_commit"
        /\ loc'[p].id = i
        /\ loc'[p].caso = "revalida"

\* C11 as stated  After the extension of a still-active bound row the row
\* keeps its device and activation time, and the next activation request
\* carrying that device, whenever it is made, is granted as a revalidation
\* that reports the extended expiration and rebinds nothing.
C11_NextActivationSucceeds ==
    [][/\ ExtensionKeepsBinding
       /\ RevalidatesAfterExtension
       /\ \A i \in DOMAIN licencias :
            ( /\ ExtendedSinceActivation(licencias[i])
              /\ ActivarArrives(licencias[i].codigo_licencia,
                                licencias[i].hwid_activacion) )
            => GrantedAfterExtension(i)]_vars

\* C11  After the extension of a still-active bound row the row keeps its
\* device and activation time, and the next activation request carrying that
\* device is granted as a revalidation that reports the extended expiration
\* and rebinds nothing, provided the request is made no later than the
\* calendar day of the extended expiration; a later one is refused as expired
\* and changes nothing.
C11_ExtensionKeepsBinding ==
    [][/\ ExtensionKeepsBinding
       /\ RevalidatesAfterExtension
       /\ \A i \in DOMAIN licencias :
            ( /\ ExtendedSinceActivation(licencias[i])
              /\ ActivarArrives(licencias[i].codigo_licencia,
                                licencias[i].hwid_activacion) )
            => IF Date(now) <= Date(licencias[i].fecha_expiracion)
               THEN GrantedAfterExtension(i)
               ELSE /\ last'.resp.status = 403
                    /\ last'.resp.mensaje = "expiro"
                    /\ licencias' = licencias]_vars

\* A row activated, extended some time later and then revalidated: the
\* response reports the extended expiration and the binding is the original.
C11_Witness ==
    /\ last.req.op = "activar"
    /\ last.resp.status = 200
    /\ ExtendedSinceActivation(last.loc.snap)
    /\ last.loc.snap.fecha_activacion < last.loc.ahora
    /\ last.resp.expiracion = last.loc.snap.fecha_activacion + 2 * Year
    /\ licencias[last.loc.id].hwid_activacion = last.req.hwid
    /\ licencias[last.loc.id].fecha_activacion = last.loc.snap.fecha_activacion

\* ----------------------------------------------------------------------
\* The mutation a purchase prepared is in the store after its commit step.
MutationCommitted(p) ==
    LET l == loc[p] IN
    CASE l.caso = "nuevo" ->
           /\ Len(licencias') = Len(licencias) + 1
           /\ licencias'[Len(licencias')] = Licencia(l.clave, req[p].email)
      [] l.caso = "extender" ->
           /\ Len(licencias') = Len(licencias)
           /\ licencias'[l.id].fecha_expiracion = l.snap.fecha_expiracion + Year
           /\ licencias'[l.id].token_sesion = None
      [] l.caso = "resetear" ->
           /\ Len(licencias') = Len(licencias)
           /\ licencias'[l.id] = Licencia(l.clave, req[p].email)
      [] OTHER -> FALSE

\* C12  When the notification sink does not accept the mail of a purchase,
\* the purchase answers its caller with a failure (500) and the mutation made
\* for the purchase (the new row, the extension or the reset) is in the store
\* all the same; the purchase answers success (200) exactly when the sink
\* accepted the mail.
C12_SinkRejection ==
    [][\A p \in Procs :
          KofiCommits(p)
          => ( /\ MutationCommitted(p)
               /\ last'.loc.clave = loc[p].clave
               /\ last'.loc.enviado <=> last'.resp.status = 200
               /\ ~last'.loc.enviado
                    => ( /\ ~Success(last'.resp.status)
                         /\ last'.resp.status = 500
                         /\ last'.resp.mensaje = "Error interno de email" ) )]_vars

\* The sink refused the mail of an extension, and the row stays extended.
C12_Witness ==
    /\ last.req.op = "kofi"
    /\ last.loc.caso = "extender"
    /\ ~last.loc.enviado
    /\ last.resp.status = 500
    /\ licencias[last.loc.id].fecha_expiracion = last.loc.snap.fecha_expiracion + Year

\* ----------------------------------------------------------------------
\* C13  A provisioning request with a count n in 1..100 is answered 200 and
\* appends exactly n rows to the table: their codes differ from one another
\* and from every code already stored, and buyer, device, activation time,
\* session token and expiration of each are unset; the rows already stored
\* are unchanged.  A count outside 1..100 is answered 400 and changes
\* nothing.
C13_Provisioning ==
    [][last'.req.op = "generar"
       => LET n == last'.req.cantidad
              nuevas == (Len(licencias) + 1)..Len(licencias')
          IN
          IF 1 <= n /\ n <= 100
          THEN /\ last'.resp.status = 200
               /\ Len(licencias') = Len(licencias) + n
               /\ \A i \in DOMAIN licencias : licencias'[i] = licencias[i]
               /\ \A i \in nuevas :
                    /\ licencias'[i].codigo_licencia # None
                    /\ licencias'[i].codigo_licencia \notin Codes
                    /\ licencias'[i].buyer_email = NoneStr
                    /\ licencias'[i].hwid_activacion = NoneStr
                    /\ licencias'[i].fecha_activacion = None
                    /\ licencias'[i].token_sesion = None
                    /\ licencias'[i].fecha_expiracion = None
               /\ \A i, j \in nuevas :
                    i # j => licencias'[i].codigo_licencia # licencias'[j].codigo_licencia
          ELSE /\ last'.resp.status = 400
               /\ licencias' = licencias]_vars

\* A batch of 100 rows was added to a store that held a bound row.
C13_Witness ==
    /\ last.req.op = "generar"
    /\ last.req.cantidad = 100
    /\ last.resp.status = 200
    /\ Len(licencias) > 100
    /\ licencias[1].hwid_activacion # NoneStr
    /\ licencias[Len(licencias)].buyer_email = NoneStr

\* ----------------------------------------------------------------------
CodesDistinct ==
    \A i, j \in DOMAIN licencias :
        i # j => licencias[i].codigo_licencia # licencias[j].codigo_licencia

CodeKept ==
    \A i \in DOMAIN licencias :
        /\ i \in DOMAIN licencias'
        /\ licencias'[i].codigo_licencia = licencias[i].codigo_licencia

\* C14  In every reachable state, whatever the interleaving of provisioning,
\* purchase and activation requests, no two rows have the same
\* codigo_licencia; and no step removes a row or changes the codigo_licencia
\* of a row.
C14_CodeUniqueness == []CodesDistinct /\ [][CodeKept]_vars

\* A provisioned row and a purchased row side by side, one of them bound,
\* while a purchase is still in flight.
C14_Witness ==
    /\ Len(licencias) = 2
    /\ \E i \in DOMAIN licencias : licencias[i].buyer_email = NoneStr
    /\ \E i \in DOMAIN licencias : licencias[i].buyer_email # NoneStr
    /\ \E i \in DOMAIN licencias : licencias[i].hwid_activacion # NoneStr
    /\ \E q \in Procs : pc[q] = "kofi_commit"

\* ----------------------------------------------------------------------
\* C15  In every reachable state every row whose fecha_expiracion is set has
\* its fecha_activacion set, and the expiration is not earlier than the
\* activation.
C15_ExpirationAfterActivation ==
    \A i \in DOMAIN licencias :
        licencias[i].fecha_expiracion # None
        => ( /\ licencias[i].fecha_activacion # None
             /\ licencias[i].fecha_expiracion >= licencias[i].fecha_activacion )

\* ----------------------------------------------------------------------
\* C20  Whenever every request received has been answered, device,
\* activation time and expiration of every row are all set or all unset.
C20_AllSetOrAllUnset ==
    Quiet =>
        \A i \in DOMAIN licencias :
            /\ licencias[i].hwid_activacion # NoneStr <=> licencias[i].fecha_activacion # None
            /\ licencias[i].fecha_activacion # None <=> licencias[i].fecha_expiracion # None

\* ----------------------------------------------------------------------
\* C16  In every step, a row whose hwid_activacion is set keeps it, unless
\* the step is the commit of the renewal reset of a purchase by the row's
\* buyer, after which hwid_activacion is unset.  No activation request, no
\* provisioning, no purchase of another buyer and no passage of time unbinds
\* or rebinds a row.
C16_BindingChangesOnlyByReset ==
    [][\A i \in DOMAIN licencias :
          ( /\ licencias[i].hwid_activacion # NoneStr
            /\ licencias'[i].hwid_activacion # licencias[i].hwid_activacion )
          => ( /\ licencias'[i].hwid_activacion = NoneStr
               /\ \E p \in Procs :
                    /\ KofiCommits(p)
                    /\ loc[p].caso = "resetear"
                    /\ loc[p].id = i
                    /\ req[p].email = licencias[i].buyer_email )]_vars

\* ----------------------------------------------------------------------
\* C17  An activation request that is rejected changes no row.  A request
\* without code or device is answered 400, a request for a code no row has
\* 404, and a request with the row's device made after the calendar day of
\* the row's expiration 403 "expired"; none of these is the 403 "bound to
\* another device" answer, and each leaves the table as it was.
C17_RejectionsChangeNothing ==
    [][/\ ( last'.req.op = "activar" /\ last'.resp.status \in {400, 403, 404} )
            => licencias' = licencias
       /\ \A codigo \in Codigos : \A h \in HwidNames \cup {NoneStr} :
            ActivarArrives(codigo, h)
            => LET ids == IdsByCodigo(codigo) IN
               /\ (codigo = None \/ h = NoneStr)
                    => ( /\ pc' = pc
                         /\ last'.resp.status = 400
                         /\ last'.resp.mensaje = "Faltan datos"
                         /\ licencias' = licencias )
               /\ (codigo # None /\ h # NoneStr /\ ids = {})
                    => ( /\ pc' = pc
                         /\ last'.resp.status = 404
                         /\ last'.resp.mensaje = "Licencia invalida"
                         /\ licencias' = licencias )
               /\ \A i \in ids :
                    ( /\ h # NoneStr
                      /\ licencias[i].hwid_activacion = h
                      /\ licencias[i].fecha_expiracion # None
                      /\ Date(now) > Date(licencias[i].fecha_expiracion) )
                    => ( /\ pc' = pc
                         /\ last'.resp.status = 403
                         /\ last'.resp.mensaje = "expiro"
                         /\ last'.resp.mensaje # "otro dispositivo"
                         /\ licencias' = licencias )]_vars

\* The owner's device was refused on an expired license that still carries
\* its binding and its session token.
C17_Witness ==
    /\ last.req.op = "activar"
    /\ last.resp.status = 403
    /\ last.resp.mensaje = "expiro"
    /\ licencias[last.loc.id] = last.loc.snap
    /\ last.loc.snap.hwid_activacion = last.req.hwid
    /\ last.loc.snap.token_sesion # None

\* ----------------------------------------------------------------------
\* C18  In every reachable state, whatever the interleaving of purchases,
\* a buyer's email is the buyer_email of at most one row.
C18_OneRecordPerBuyer ==
    \A i, j \in DOMAIN licencias :
        (i # j /\ licencias[i].buyer_email # NoneStr)
        => licencias[i].buyer_email # licencias[j].buyer_email

\* ----------------------------------------------------------------------
\* C19  No extension is lost: every purchase that is handled as the
\* extension of a still-active row adds, at its commit, 365 days to the
\* expiration the row has in the store, so that k such purchases take the
\* expiration from T to T + k * 365 days.
C19_NoExtensionLost ==
    [][\A p \in Procs :
          ( /\ KofiCommits(p)
            /\ loc[p].caso = "extender" )
          => licencias'[loc[p].id].fecha_expiracion
               = licencias[loc[p].id].fecha_expiracion + Year]_vars
====
